---- MODULE Spec2Model ----
(***************************************************************************)
(* Rainbow Finder: the tool functions of the rainbow, weather, user and    *)
(* notification agents, and the rainbow service.                           *)
(*                                                                         *)
(* Numbers.  The tools compute with Python floats; the model computes the  *)
(* same expressions exactly, over integers:                                *)
(*   - precipitation is counted in hundredths of a mm/h (0.5 mm/h = 50),   *)
(*   - cloud_cover in percent, elevation in degrees,                       *)
(*   - a computed probability p is the integer p * ProbScale,              *)
(*   - the probability of a prediction handed to the notification policy   *)
(*     and min_probability are counted in hundredths (0.5 = 50).           *)
(* A Python dict is a function whose DOMAIN is the set of keys present.    *)
(***************************************************************************)
EXTENDS Integers, Sequences, FiniteSets, TLC

VARIABLES
    samples,               \* the (weather, sun position) inputs handed to the tools
    probabilities,         \* calculate_rainbow_probability results, one per sample
    serviceProbabilities,  \* RainbowService results, one per sample
    favorable,             \* analyze_rainbow_conditions results, one per sample
    predictions,           \* the list of predictions handed to the policy tools
    preferences,           \* the user preferences handed to the policy tools
    notifications,         \* should_notify_user results, one per prediction
    filterResults,         \* filter_predictions_by_preferences result, once made
    call,                  \* a call of another tool or service method: its name and arguments
    returned,              \* <<>> until that call has ended, then its outcome
    weather_providers,     \* WeatherService.weather_providers
    calls                  \* the calls made on the WeatherService, in order

rainbowVars == <<samples, probabilities, serviceProbabilities, favorable>>
policyVars == <<predictions, preferences, notifications, filterResults>>
callVars == <<call, returned>>
serviceVars == <<weather_providers, calls>>
vars == <<samples, probabilities, serviceProbabilities, favorable,
          predictions, preferences, notifications, filterResults,
          call, returned, weather_providers, calls>>

----------------------------------------------------------------------------
(* Python helpers *)

\* dict.get(key, default)
Get(d, key, default) == IF key \in DOMAIN d THEN d[key] ELSE default

\* the dict d restricted to the keys in D (the other keys are missing)
Restrict(d, D) == [k \in D |-> d[k]]

\* Python's `a and b` on a bool a: a when a is false, else b
PyAnd(a, b) == IF a = FALSE THEN FALSE ELSE b

Min(a, b) == IF a <= b THEN a ELSE b

\* Python's max(a, b): b only when b > a
Max(a, b) == IF b > a THEN b ELSE a

Abs(x) == IF x < 0 THEN -x ELSE x

----------------------------------------------------------------------------
(* shared/constants/app_constants.py *)

\* MIN_PRECIPITATION_RATE = 0.1 mm/h, in hundredths of a mm/h
MIN_PRECIPITATION_RATE == 10

\* MAX_CLOUD_COVER = 70 %
MAX_CLOUD_COVER == 70

\* MIN_SUN_ELEVATION = 0 degrees above the horizon
MIN_SUN_ELEVATION == 0

\* MAX_SUN_ELEVATION = 42 degrees above the horizon, for rainbow visibility
MAX_SUN_ELEVATION == 42

\* DEFAULT_MIN_PROBABILITY = 0.5, in hundredths
DEFAULT_MIN_PROBABILITY == 50

----------------------------------------------------------------------------
(* backend/agents/rainbow/agent.py: calculate_rainbow_probability_tool *)

\* hundredths of a mm/h in the reference rate 1.0 mm/h
PrecipUnit == 10 * 10

\* a probability p is held as p * ProbScale: the product of the denominators
\* of 0.8 = 8/10, precipitation/1.0, cloud_cover/100.0 and |elevation-20|/30
ProbScale == 10 * PrecipUnit * 100 * 30

\* faulty variant: a missing precipitation field counts as the reference rate
PrecipitationFactor_DefaultOne(weather_condition) ==
    Min(Get(weather_condition, "precipitation", PrecipUnit), PrecipUnit)

\* faulty variant: no saturation at the reference rate
PrecipitationFactor_Unsaturated(weather_condition) ==
    Get(weather_condition, "precipitation", 0)

\* min(weather_condition.get("precipitation", 0) / 1.0, 1.0), times PrecipUnit
PrecipitationFactor(weather_condition) ==
    Min(Get(weather_condition, "precipitation", 0), PrecipUnit)

\* faulty variant: the cloud fraction itself instead of the clear-sky fraction
ClearSkyFactor_Cloudy(weather_condition) ==
    Get(weather_condition, "cloud_cover", 0)

\* (1.0 - weather_condition.get("cloud_cover", 0) / 100.0), times 100
ClearSkyFactor(weather_condition) ==
    100 - Get(weather_condition, "cloud_cover", 0)

\* faulty variant: the distance from the optimum has lost its abs()
ElevationFactor_Signed(sun_position) ==
    30 - (Get(sun_position, "elevation", 0) - 20)

\* faulty variant: the factor falls to zero 45 degrees from the optimum, not 30
ElevationFactor_Wide(sun_position) ==
    (2 * (45 - Abs(Get(sun_position, "elevation", 0) - 20))) \div 3

\* (1.0 - abs(sun_position.get("elevation", 0) - 20) / 30), times 30
ElevationFactor(sun_position) ==
    30 - Abs(Get(sun_position, "elevation", 0) - 20)

\* faulty variant: the product is returned without min(max(0.0, .), 1.0)
Clamp_None(x) == x

\* min(max(0.0, x), 1.0)
Clamp(x) == Min(Max(0, x), ProbScale)

\* faulty variant: the leading coefficient is 1.0 instead of 0.8
calculate_rainbow_probability_tool_Coeff(weather_condition, sun_position) ==
    Clamp(10 * PrecipitationFactor(weather_condition)
             * ClearSkyFactor(weather_condition)
             * ElevationFactor(sun_position))

\* the "probability" entry of the tool's result
calculate_rainbow_probability_tool(weather_condition, sun_position) ==
    Clamp(8 * PrecipitationFactor(weather_condition)
            * ClearSkyFactor(weather_condition)
            * ElevationFactor(sun_position))

----------------------------------------------------------------------------
(* backend/services/rainbow_service.py *)

\* RainbowService.calculate_rainbow_probability: the placeholder returns 0.0
RainbowService_calculate_rainbow_probability(weather_data, sun_position, location) ==
    0

----------------------------------------------------------------------------
(* backend/agents/weather/agent.py: analyze_rainbow_conditions_tool *)

\* faulty variant: both thresholds exclusive
analyze_rainbow_conditions_tool_Strict(weather_data) ==
    PyAnd(Get(weather_data, "precipitation", 0) > MIN_PRECIPITATION_RATE,
          Get(weather_data, "cloud_cover", 100) < MAX_CLOUD_COVER)

\* the "favorable" entry of the tool's result
analyze_rainbow_conditions_tool(weather_data) ==
    PyAnd(Get(weather_data, "precipitation", 0) >= MIN_PRECIPITATION_RATE,
          Get(weather_data, "cloud_cover", 100) <= MAX_CLOUD_COVER)

----------------------------------------------------------------------------
(* backend/agents/notification/agent.py: should_notify_tool *)

\* faulty variant: the notification_enabled switch is not consulted
should_notify_tool_IgnoresEnabled(user_id, prediction, user_preferences) ==
    Get(prediction, "probability", 0)
        >= Get(user_preferences, "min_probability", DEFAULT_MIN_PROBABILITY)

\* the "should_notify" entry of the tool's result
should_notify_tool(user_id, prediction, user_preferences) ==
    PyAnd(Get(user_preferences, "notification_enabled", TRUE),
          Get(prediction, "probability", 0)
              >= Get(user_preferences, "min_probability", DEFAULT_MIN_PROBABILITY))

----------------------------------------------------------------------------
(* backend/agents/user/agent.py: filter_predictions_by_preferences_tool *)

\* the default 0.5 written out in the filter's lambda, in hundredths
FilterDefaultMinProbability == 5 * 10

\* faulty variant: a prediction exactly at the floor is dropped
FilterCondition_Strict(p, prefs) ==
    Get(p, "probability", 0)
        > Get(prefs, "min_probability", FilterDefaultMinProbability)

\* faulty variant: without min_probability every prediction is kept
FilterCondition_NoDefaultFloor(p, prefs) ==
    Get(p, "probability", 0) >= Get(prefs, "min_probability", 0)

\* the condition of the list comprehension
FilterCondition(p, prefs) ==
    Get(p, "probability", 0)
        >= Get(prefs, "min_probability", FilterDefaultMinProbability)

\* the "filtered_predictions" entry of the tool's result:
\* [p for p in predictions if <condition>]
RECURSIVE filter_predictions_by_preferences_tool(_, _)
filter_predictions_by_preferences_tool(preds, prefs) ==
    IF preds = <<>> THEN <<>>
    ELSE (IF FilterCondition(Head(preds), prefs) THEN <<Head(preds)>> ELSE <<>>)
             \o filter_predictions_by_preferences_tool(Tail(preds), prefs)

----------------------------------------------------------------------------
(* Values of the service and tool calls.  A call ends in an outcome: the     *)
(* value it returns, or the exception it raises.  Latitudes and longitudes  *)
(* are counted in hundredths of a degree, a radius in metres.               *)

Returns(v) == [value |-> v]
Raises(e) == [raised |-> e]

\* Python's None
None == [type |-> "NoneType"]

----------------------------------------------------------------------------
(* backend/agents/rainbow/agent.py: determine_viewing_locations_tool,       *)
(* predict_rainbow_timing_tool                                              *)

\* the "viewing_locations" entry of the tool's result: the center moved by
\* (+0.01, +0.01) and by (-0.01, +0.02) degrees; radius_km is not read
determine_viewing_locations_tool(center_location, sun_position, radius_km) ==
    << [latitude |-> Get(center_location, "latitude", 0) + 1,
        longitude |-> Get(center_location, "longitude", 0) + 1,
        name |-> "Optimal Viewing Point 1"],
       [latitude |-> Get(center_location, "latitude", 0) - 1,
        longitude |-> Get(center_location, "longitude", 0) + 2,
        name |-> "Optimal Viewing Point 2"] >>

\* the "time_windows" entry of the tool's result: two fixed windows
\* (probabilities in hundredths); neither argument is read
predict_rainbow_timing_tool(weather_forecast, sun_positions) ==
    << [start_time |-> "2025-06-07T17:00:00Z",
        end_time |-> "2025-06-07T17:30:00Z",
        probability |-> 75],
       [start_time |-> "2025-06-08T08:15:00Z",
        end_time |-> "2025-06-08T08:45:00Z",
        probability |-> 65] >>

\* RainbowService.calculate_optimal_viewing_position: the placeholder
\* returns None
RainbowService_calculate_optimal_viewing_position(precipitation_location, sun_position, max_distance_km) ==
    None

----------------------------------------------------------------------------
(* backend/agents/weather/agent.py: get_forecast_tool *)

\* the hour written into the i-th timestamp (i from 0):
\* 12+i if 12+i<24 else 12+i-24
ForecastHour(i) == IF 12 + i < 24 THEN 12 + i ELSE 12 + i - 24

\* f"2025-06-07T{hour}:00:00Z": the date is the same in every sample
ForecastTimestamp(i) == [date |-> "2025-06-07", hour |-> ForecastHour(i), minute |-> 0]

\* the list the tool returns: one sample for each i in range(hours)
\* (precipitation in hundredths of a mm/h)
get_forecast_tool(latitude, longitude, hours) ==
    [ n \in 1..hours |->
        [temperature |-> 20, humidity |-> 75, precipitation |-> 20,
         cloud_cover |-> 40, wind_speed |-> 10, wind_direction |-> 180,
         timestamp |-> ForecastTimestamp(n - 1)] ]

----------------------------------------------------------------------------
(* backend/services/location_service.py: LocationService                    *)
(*                                                                          *)
(* A Location object is a record with type "Location"; an attribute that is *)
(* None is a missing field.  A location dict has no "type" key.  Angles     *)
(* (latitude, longitude, bearing) are counted in hundredths of a degree,    *)
(* and so are distances: a distance is the great-circle arc it spans, one   *)
(* unit being 6371 km * pi / 18000 = 1.1119 km.                             *)

KeyError(key) == [type |-> "KeyError", key |-> key]

\* isinstance(x, dict)
IsDict(x) == "type" \notin DOMAIN x

\* LocationService._format_location; extras holds the altitude and the name
\* that are not None
format_location(lat, lon, extras) ==
    [k \in {"type", "latitude", "longitude"} \cup DOMAIN extras |->
        CASE k = "type" -> "Location"
          [] k = "latitude" -> lat
          [] k = "longitude" -> lon
          [] OTHER -> extras[k]]

\* LocationService.location_from_dict: the subscripts raise KeyError
location_from_dict(location_dict) ==
    IF "latitude" \notin DOMAIN location_dict THEN Raises(KeyError("latitude"))
    ELSE IF "longitude" \notin DOMAIN location_dict THEN Raises(KeyError("longitude"))
    ELSE Returns(format_location(location_dict.latitude, location_dict.longitude,
                                 Restrict(location_dict,
                                          DOMAIN location_dict \cap {"altitude", "name"})))

\* the coordinates of a point, as every method extracts them:
\*   if isinstance(point, dict): lat, lon = point['latitude'], point['longitude']
\*   else: lat, lon = point.latitude, point.longitude
Coordinates(point) ==
    IF IsDict(point) /\ "latitude" \notin DOMAIN point THEN Raises(KeyError("latitude"))
    ELSE IF IsDict(point) /\ "longitude" \notin DOMAIN point THEN Raises(KeyError("longitude"))
    ELSE Returns([latitude |-> point.latitude, longitude |-> point.longitude])

\* an angle brought into (-180, 180] degrees
Wrap180(a) ==
    LET m == a % 36000 IN IF m > 18000 THEN m - 36000 ELSE m

\* asin(sin(a)) in degrees: the latitude reached at angle a along a meridian
FoldLatitude(a) ==
    LET w == Wrap180(a)
    IN  IF w > 9000 THEN 18000 - w ELSE IF w < -9000 THEN -18000 - w ELSE w

\* the signs of sin(a) and cos(a)
SinSign(a) ==
    LET w == Wrap180(a) IN IF w = 0 \/ w = 18000 THEN 0 ELSE IF w > 0 THEN 1 ELSE -1
CosSign(a) ==
    LET w == Abs(Wrap180(a)) IN IF w = 9000 THEN 0 ELSE IF w < 9000 THEN 1 ELSE -1

\* geopy's great_circle(...) for two points on the equator or on one
\* meridian: the arc between them
great_circle(lat1, lon1, lat2, lon2) ==
    CASE lat1 = 0 /\ lat2 = 0 -> Abs(Wrap180(lon2 - lon1))
      [] Wrap180(lon2 - lon1) = 0 -> Abs(lat2 - lat1)

\* faulty variant of haversine_distance: the half-angle sine is not squared
haversine_distance_Signed(lat1, lon1, lat2, lon2) ==
    CASE lat1 = 0 /\ lat2 = 0 -> 2 * FoldLatitude((lon2 - lon1) \div 2)
      [] lon1 = lon2 -> 2 * FoldLatitude((lat2 - lat1) \div 2)

\* LocationService.haversine_distance for two points on the equator, where
\* a = sin(dlon/2)**2, or of one longitude, where a = sin(dlat/2)**2:
\* c = 2 * asin(sqrt(a)) = 2 * |asin(sin(d/2))|, the arc r * c spans; the
\* coordinates are whole degrees, so the halves are exact
haversine_distance(lat1, lon1, lat2, lon2) ==
    CASE lat1 = 0 /\ lat2 = 0 -> 2 * Abs(FoldLatitude((lon2 - lon1) \div 2))
      [] lon1 = lon2 -> 2 * Abs(FoldLatitude((lat2 - lat1) \div 2))

\* LocationService.calculate_distance
calculate_distance(point1, point2) ==
    LET c1 == Coordinates(point1)
        c2 == Coordinates(point2)
    IN  IF "raised" \in DOMAIN c1 THEN c1
        ELSE IF "raised" \in DOMAIN c2 THEN c2
        ELSE Returns(great_circle(c1.value.latitude, c1.value.longitude,
                                  c2.value.latitude, c2.value.longitude))

\* faulty variant of NormalizeBearing: the bearing is returned as atan2 gives it
NormalizeBearing_None(bearing_deg) == bearing_deg

\* bearing_normalized = (bearing_deg + 360) % 360
NormalizeBearing(bearing_deg) == (bearing_deg + 36000) % 36000

\* degrees(atan2(y, x)) of calculate_bearing, in (-180, 180]:
\*   for two equal points x and y are both 0.0 and atan2 returns 0;
\*   for two points on the equator x is 0.0 and y = sin(dlon), and dlon is
\*   no multiple of 180 degrees other than 0;
\*   for two points of one longitude y is 0.0 and x = sin(lat2 - lat1)
BearingDegrees(lat1, lon1, lat2, lon2) ==
    CASE lat1 = lat2 /\ lon1 = lon2 -> 0
      [] lat1 = 0 /\ lat2 = 0 /\ SinSign(lon2 - lon1) > 0 -> 9000
      [] lat1 = 0 /\ lat2 = 0 /\ SinSign(lon2 - lon1) < 0 -> -9000
      [] lon1 = lon2 /\ lat2 > lat1 -> 0
      [] lon1 = lon2 /\ lat2 < lat1 -> 18000

\* the bearing calculate_bearing computes from the coordinates
BearingOf(lat1, lon1, lat2, lon2) ==
    NormalizeBearing(BearingDegrees(lat1, lon1, lat2, lon2))

\* LocationService.calculate_bearing
calculate_bearing(point1, point2) ==
    LET c1 == Coordinates(point1)
        c2 == Coordinates(point2)
    IN  IF "raised" \in DOMAIN c1 THEN c1
        ELSE IF "raised" \in DOMAIN c2 THEN c2
        ELSE Returns(BearingOf(c1.value.latitude, c1.value.longitude,
                               c2.value.latitude, c2.value.longitude))

\* lon2 - lon1 of destination_point along a meridian (bearing 0 or 180,
\* dir = 1 or -1) over the arc d: atan2(y, x) with y = 0 or negligible and
\* x = cos(lat1) * cos(lat1 + dir * d).  Where x is 0 up to rounding, the
\* sign the floating-point x takes is not determined, and neither is the
\* sign of y where sin(d) is 0 up to rounding.
MeridianTurns(lat1, dir, d) ==
    LET xs == CosSign(lat1) * CosSign(lat1 + dir * d)
    IN  IF xs > 0 THEN {0}
        ELSE IF xs = 0 THEN {0, 18000, -18000}
        ELSE IF SinSign(d) > 0 THEN {18000}
        ELSE IF SinSign(d) < 0 THEN {-18000}
        ELSE {18000, -18000}

\* lon2 - lon1 of destination_point along the equator (bearing 90 or 270,
\* dir = 1 or -1) over the arc d: atan2(dir * sin(d), cos(d))
EquatorTurns(dir, d) ==
    IF Wrap180(d) = 18000 THEN {18000, -18000} ELSE {dir * Wrap180(d)}

\* the (lat2, lon2) destination_point can compute, for the bearings 0 and
\* 180 from any start and the bearings 90 and 270 from a start on the
\* equator; lon2 = lon1 + atan2(...) is returned as it is
DestinationCoordinates(lat1, lon1, bearing, d) ==
    CASE bearing = 0 ->
           { [latitude |-> FoldLatitude(lat1 + d), longitude |-> lon1 + t] :
               t \in MeridianTurns(lat1, 1, d) }
      [] bearing = 18000 ->
           { [latitude |-> FoldLatitude(lat1 - d), longitude |-> lon1 + t] :
               t \in MeridianTurns(lat1, -1, d) }
      [] bearing = 9000 /\ lat1 = 0 ->
           { [latitude |-> 0, longitude |-> lon1 + t] : t \in EquatorTurns(1, d) }
      [] bearing = 27000 /\ lat1 = 0 ->
           { [latitude |-> 0, longitude |-> lon1 + t] : t \in EquatorTurns(-1, d) }

\* LocationService.destination_point: the outcomes it can end in
destination_point(start, bearing, distance_km) ==
    LET c == Coordinates(start)
    IN  IF "raised" \in DOMAIN c THEN {c}
        ELSE { Returns(format_location(x.latitude, x.longitude,
                                       Restrict(start, DOMAIN start \cap {"name"}))) :
                 x \in DestinationCoordinates(c.value.latitude, c.value.longitude,
                                              bearing, distance_km) }

\* faulty variant of geocode: a miss is answered with the coordinate (0, 0)
geocode_ZeroOnMiss(address, provider) ==
    IF "raised" \in DOMAIN provider
    THEN IF provider.raised.type \in {"GeocoderTimedOut", "GeocoderServiceError"}
         THEN Returns(None) ELSE provider
    ELSE IF provider.value = None THEN Returns(format_location(0, 0, <<>>))
    ELSE Returns(format_location(provider.value.latitude, provider.value.longitude,
                                 [name |-> provider.value.address]))

\* LocationService.geocode; provider is the outcome of
\* self.geolocator.geocode(address)
geocode(address, provider) ==
    IF "raised" \in DOMAIN provider
    THEN IF provider.raised.type \in {"GeocoderTimedOut", "GeocoderServiceError"}
         THEN Returns(None) ELSE provider
    ELSE IF provider.value = None THEN Returns(None)
    ELSE Returns(format_location(provider.value.latitude, provider.value.longitude,
                                 [name |-> provider.value.address]))

\* faulty variant of InsertByDistance: an entry goes before the entries at
\* the same distance
RECURSIVE InsertByDistance_Unstable(_, _)
InsertByDistance_Unstable(sorted, r) ==
    IF sorted = <<>> THEN <<r>>
    ELSE IF Head(sorted).distance < r.distance
         THEN <<Head(sorted)>> \o InsertByDistance_Unstable(Tail(sorted), r)
         ELSE <<r>> \o sorted

\* results.sort(key=lambda x: x['distance']): a stable sort
RECURSIVE InsertByDistance(_, _)
InsertByDistance(sorted, r) ==
    IF sorted = <<>> THEN <<r>>
    ELSE IF Head(sorted).distance <= r.distance
         THEN <<Head(sorted)>> \o InsertByDistance(Tail(sorted), r)
         ELSE <<r>> \o sorted

RECURSIVE SortByDistance(_)
SortByDistance(results) ==
    IF results = <<>> THEN <<>>
    ELSE InsertByDistance(SortByDistance(SubSeq(results, 1, Len(results) - 1)),
                          results[Len(results)])

\* the loop of find_locations_in_radius over the points of interest
RECURSIVE ResultsWithinRadius(_, _, _)
ResultsWithinRadius(center_loc, radius_km, points_of_interest) ==
    IF points_of_interest = <<>> THEN <<>>
    ELSE LET poi == Head(points_of_interest)
             rest == ResultsWithinRadius(center_loc, radius_km, Tail(points_of_interest))
         IN  IF IsDict(poi) /\ ~({"latitude", "longitude"} \subseteq DOMAIN poi)
             THEN rest
             ELSE LET poi_loc == IF IsDict(poi) THEN location_from_dict(poi).value ELSE poi
                      distance == calculate_distance(center_loc, poi_loc).value
                  IN  IF distance <= radius_km
                      THEN <<[location |-> poi_loc,
                              distance |-> distance,
                              bearing |-> calculate_bearing(center_loc, poi_loc).value,
                              metadata |-> IF IsDict(poi) THEN poi ELSE <<>>]>> \o rest
                      ELSE rest

\* LocationService.find_locations_in_radius; points_of_interest is the empty
\* sequence both for None and for [], which take the same branch
find_locations_in_radius(center, radius_km, points_of_interest) ==
    LET converted == IF IsDict(center) THEN location_from_dict(center) ELSE Returns(center)
    IN  IF "raised" \in DOMAIN converted THEN converted
        ELSE IF points_of_interest = <<>> THEN Returns(<<>>)
        ELSE Returns(SortByDistance(
                 ResultsWithinRadius(converted.value, radius_km, points_of_interest)))

----------------------------------------------------------------------------
(* backend/services/sun_service.py: SunService                              *)
(*                                                                          *)
(* A datetime is a record of a day number and the minute of that day.       *)

CycleKeys ==
    {"sunrise", "sunset", "civil_twilight_begin", "civil_twilight_end",
     "golden_hour_begin", "golden_hour_end"}

\* SunService.get_day_night_cycle: date, defaulted to the clock when None,
\* goes to the log only; now is what datetime.now() returns at line 54
get_day_night_cycle(location, date, now) ==
    [k \in CycleKeys |-> now]

----------------------------------------------------------------------------
(* backend/services/weather_service.py: WeatherService                      *)

\* d[key] = value
SetItem(d, key, value) ==
    [k \in DOMAIN d \cup {key} |-> IF k = key THEN value ELSE d[k]]

\* faulty variant of register_weather_provider: a name already registered
\* keeps its configuration
register_weather_provider_KeepFirst(providers, provider_name, provider_config) ==
    IF provider_name \in DOMAIN providers THEN providers
    ELSE SetItem(providers, provider_name, provider_config)

\* WeatherService.register_weather_provider: weather_providers after
\* self.weather_providers[provider_name] = provider_config
register_weather_provider(providers, provider_name, provider_config) ==
    SetItem(providers, provider_name, provider_config)

\* WeatherService.get_current_weather: the placeholder it returns
WeatherService_get_current_weather(location) ==
    [temperature |-> 0, humidity |-> 0, precipitation |-> 0, wind_speed |-> 0,
     wind_direction |-> 0, cloud_cover |-> 0, status |-> "placeholder"]

\* WeatherService.get_weather_forecast
WeatherService_get_weather_forecast(location, hours) ==
    [n \in 1..hours |-> WeatherService_get_current_weather(location)]

----------------------------------------------------------------------------
(* Inputs *)

\* longest list of predictions handed to the policy tools
MaxPredictions == 3

\* weather mappings: each of the two fields present or missing
WeatherInputs(P, C) ==
    { Restrict([precipitation |-> p, cloud_cover |-> c], D) :
        p \in P, c \in C, D \in SUBSET {"precipitation", "cloud_cover"} }

\* sun-position mappings: elevation present or missing
SunInputs(E) ==
    { Restrict([elevation |-> e], D) : e \in E, D \in SUBSET {"elevation"} }

SampleInputs(P, C, E) ==
    { [weather |-> w, sun |-> s] : w \in WeatherInputs(P, C), s \in SunInputs(E) }

\* values in range, on the thresholds, negative and far out of range
WidePrecipitation == {-50, 0, 5, 10, 50, 100, 250}
WideCloudCover == {-300, 0, 20, 70, 71, 90, 100, 150}
WideElevation == {-90, -10, 0, 20, 40, 45, 50, 60, 90}

\* values for comparing two calls
PairPrecipitation == {0, 50, 100, 250}
PairCloudCover == {0, 20, 100, 150}
PairElevation == {-10, 0, 20, 40, 60}

\* predictions: an id, and a probability that may be missing
PredictionInputs ==
    { Restrict([id |-> i, probability |-> q], D) :
        i \in 1..2, q \in {30, 50, 80}, D \in {{"id"}, {"id", "probability"}} }

\* preferences: each of the two fields present or missing
PreferenceInputs ==
    { Restrict([notification_enabled |-> b, min_probability |-> m], D) :
        b \in BOOLEAN, m \in {0, 50, 80},
        D \in SUBSET {"notification_enabled", "min_probability"} }

ListsUpTo(S, n) == UNION { [1..k -> S] : k \in 0..n }

----------------------------------------------------------------------------
(* The tools are applied to the inputs drawn by Init, in list order *)

NoRainbowCalls ==
    /\ samples = <<>>
    /\ probabilities = <<>>
    /\ serviceProbabilities = <<>>
    /\ favorable = <<>>

NoPolicyCalls ==
    /\ predictions = <<>>
    /\ preferences = <<>>
    /\ notifications = <<>>
    /\ filterResults = <<>>

\* a WeatherService as constructed, no call made on it
NoServiceCalls ==
    /\ weather_providers = <<>>
    /\ calls = <<>>

NoOtherCall ==
    /\ call = [op |-> "none"]
    /\ returned = <<>>
    /\ NoServiceCalls

\* one weather/sun sample, nothing computed yet
Init ==
    /\ samples \in { <<x>> : x \in SampleInputs(WidePrecipitation, WideCloudCover, WideElevation) }
    /\ probabilities = <<>>
    /\ serviceProbabilities = <<>>
    /\ favorable = <<>>
    /\ NoPolicyCalls
    /\ NoOtherCall

\* two weather/sun samples, nothing computed yet
InitPairs ==
    /\ samples \in { <<x, y>> :
                       x \in SampleInputs(PairPrecipitation, PairCloudCover, PairElevation),
                       y \in SampleInputs(PairPrecipitation, PairCloudCover, PairElevation) }
    /\ probabilities = <<>>
    /\ serviceProbabilities = <<>>
    /\ favorable = <<>>
    /\ NoPolicyCalls
    /\ NoOtherCall

\* a list of predictions and a user's preferences, nothing decided yet
InitPolicy ==
    /\ predictions \in ListsUpTo(PredictionInputs, MaxPredictions)
    /\ preferences \in PreferenceInputs
    /\ notifications = <<>>
    /\ filterResults = <<>>
    /\ NoRainbowCalls
    /\ NoOtherCall

\* calculate_rainbow_probability on the next sample
CalculateRainbowProbability ==
    /\ Len(probabilities) < Len(samples)
    /\ LET x == samples[Len(probabilities) + 1]
       IN  probabilities' =
               Append(probabilities, calculate_rainbow_probability_tool(x.weather, x.sun))
    /\ UNCHANGED <<samples, serviceProbabilities, favorable, policyVars, callVars, serviceVars>>

\* RainbowService.calculate_rainbow_probability on the next sample
ServiceCalculateRainbowProbability ==
    /\ Len(serviceProbabilities) < Len(samples)
    /\ LET x == samples[Len(serviceProbabilities) + 1]
       IN  serviceProbabilities' =
               Append(serviceProbabilities,
                      RainbowService_calculate_rainbow_probability(x.weather, x.sun, <<>>))
    /\ UNCHANGED <<samples, probabilities, favorable, policyVars, callVars, serviceVars>>

\* analyze_rainbow_conditions on the next sample's weather
AnalyzeRainbowConditions ==
    /\ Len(favorable) < Len(samples)
    /\ favorable' =
           Append(favorable,
                  analyze_rainbow_conditions_tool(samples[Len(favorable) + 1].weather))
    /\ UNCHANGED <<samples, probabilities, serviceProbabilities, policyVars, callVars, serviceVars>>

\* should_notify_user on the next prediction of the list
ShouldNotifyUser ==
    /\ Len(notifications) < Len(predictions)
    /\ notifications' =
           Append(notifications,
                  should_notify_tool("user", predictions[Len(notifications) + 1], preferences))
    /\ UNCHANGED <<predictions, preferences, filterResults, rainbowVars, callVars, serviceVars>>

\* filter_predictions_by_preferences on the whole list
FilterPredictionsByPreferences ==
    /\ filterResults = <<>>
    /\ filterResults' = <<filter_predictions_by_preferences_tool(predictions, preferences)>>
    /\ UNCHANGED <<predictions, preferences, notifications, rainbowVars, callVars, serviceVars>>

Next ==
    \/ CalculateRainbowProbability
    \/ ServiceCalculateRainbowProbability
    \/ AnalyzeRainbowConditions

NextPairs == CalculateRainbowProbability

NextPolicy ==
    \/ ShouldNotifyUser
    \/ FilterPredictionsByPreferences

Spec == Init /\ [][Next]_vars

SpecPairs == InitPairs /\ [][NextPairs]_vars

SpecPolicy == InitPolicy /\ [][NextPolicy]_vars

----------------------------------------------------------------------------
(* Calls of the other tools and of the services: Init draws one call, the   *)
(* action of the called operation runs it to its outcome                     *)

\* longest forecast handed to predict_rainbow_timing
MaxForecast == 3

\* largest hours argument of get_weather_forecast
MaxHours == 14

\* forecast samples: no rain, ideal conditions, rain under a sun too high
ForecastSamples ==
    { [weather |-> [precipitation |-> 0, cloud_cover |-> 90], sun |-> [elevation |-> 20]],
      [weather |-> [precipitation |-> 100, cloud_cover |-> 0], sun |-> [elevation |-> 20]],
      [weather |-> [precipitation |-> 100, cloud_cover |-> 0], sun |-> [elevation |-> 60]] }

TimingCalls ==
    { [op |-> "predict_rainbow_timing",
       weather_forecast |-> [i \in DOMAIN f |-> f[i].weather],
       sun_positions |-> [i \in DOMAIN f |-> f[i].sun]] :
        f \in ListsUpTo(ForecastSamples, MaxForecast) }

\* center locations: each coordinate present or missing
CenterInputs ==
    { Restrict([latitude |-> lat, longitude |-> lon], D) :
        lat \in {0, 4761}, lon \in {0, -12233},
        D \in SUBSET {"latitude", "longitude"} }

ViewingCalls ==
    { [op |-> "determine_viewing_locations",
       center_location |-> c,
       sun_position |-> [azimuth |-> 180, elevation |-> 20],
       radius_km |-> r] :
        c \in CenterInputs, r \in {0, 1000, 5000, 10000} }

ForecastCalls ==
    { [op |-> "get_weather_forecast", latitude |-> 4761, longitude |-> -12233, hours |-> h] :
        h \in 0..MaxHours }

\* location dicts: every key present or missing; the names are strings
LocationDictInputs ==
    { Restrict([latitude |-> 4761, longitude |-> -12233, altitude |-> 50, name |-> "Seattle"], D) :
        D \in SUBSET {"latitude", "longitude", "altitude", "name"} }

FromDictCalls ==
    { [op |-> "location_from_dict", location_dict |-> d] : d \in LocationDictInputs }

\* points on the equator, no two of them antipodal: dicts with each
\* coordinate present or missing, and Location objects
EquatorLongitudes == {0, 9000, -17000}

EquatorPoints ==
    { Restrict([latitude |-> 0, longitude |-> lon], D) :
        lon \in EquatorLongitudes, D \in SUBSET {"latitude", "longitude"} }
    \cup { format_location(0, lon, <<>>) : lon \in EquatorLongitudes }

\* points of longitude 0, up to the north pole: dicts and Location objects
MeridianLatitudes == {-4500, 0, 3000, 9000}

MeridianPoints ==
    { [latitude |-> lat, longitude |-> 0] : lat \in MeridianLatitudes }
    \cup { format_location(lat, 0, <<>>) : lat \in MeridianLatitudes }

\* pairs of points on the equator and pairs of points of one longitude
PointPairs ==
    (EquatorPoints \X EquatorPoints) \cup (MeridianPoints \X MeridianPoints)

DistanceCalls ==
    { [op |-> "calculate_distance", point1 |-> pp[1], point2 |-> pp[2]] : pp \in PointPairs }

BearingCalls ==
    { [op |-> "calculate_bearing", point1 |-> pp[1], point2 |-> pp[2]] : pp \in PointPairs }

\* coordinates handed to haversine_distance: on the equator, both sides of
\* the antimeridian included, or of longitude 0
HaversineCalls ==
    { [op |-> "haversine_distance", lat1 |-> 0, lon1 |-> a, lat2 |-> 0, lon2 |-> b] :
        a \in EquatorLongitudes \cup {-18000, 18000},
        b \in EquatorLongitudes \cup {-18000, 18000} }
    \cup { [op |-> "haversine_distance", lat1 |-> a, lon1 |-> 0, lat2 |-> b, lon2 |-> 0] :
             a \in MeridianLatitudes, b \in MeridianLatitudes }

\* starting points of destination_point
StartInputs ==
    { Restrict([latitude |-> lat, longitude |-> lon, name |-> "Start"], D) :
        lat \in {-4500, 0, 4500, 9000}, lon \in {-17950, 0, 9000, 17950},
        D \in { {"latitude", "longitude"}, {"latitude", "longitude", "name"},
                {"latitude"}, {"longitude"} } }

\* bearings along the meridian from every start, along the equator from a
\* start on it; distances from 0 to half the circumference
DestinationCalls ==
    { c \in { [op |-> "destination_point", start |-> st, bearing |-> b, distance_km |-> d] :
                st \in StartInputs, b \in {0, 9000, 18000, 27000},
                d \in {0, 100, 9000, 13500, 18000} } :
        c.bearing \in {9000, 27000} => Get(c.start, "latitude", 0) = 0 }

\* points of interest: two dicts, a dict without latitude, a Location
PoiInputs ==
    { [latitude |-> 0, longitude |-> 0],
      [latitude |-> 0, longitude |-> 9000, name |-> "Lookout"],
      [longitude |-> 9000, name |-> "Nowhere"],
      format_location(0, 2000, [name |-> "Pier"]) }

MaxPois == 2

FindCalls ==
    { [op |-> "find_locations_in_radius", center |-> c, radius_km |-> r,
       points_of_interest |-> pois] :
        c \in EquatorPoints, r \in {0, 9000, 18000}, pois \in ListsUpTo(PoiInputs, MaxPois) }

\* what self.geolocator.geocode(address) can do: find nothing, find a place,
\* time out, fail, or raise an exception geocode does not catch
ProviderOutcomes ==
    { Returns(None),
      Returns([latitude |-> 4761, longitude |-> -12233, address |-> "Seattle, WA, USA"]),
      Returns([latitude |-> 0, longitude |-> 0, address |-> "Null Island"]),
      Raises([type |-> "GeocoderTimedOut"]),
      Raises([type |-> "GeocoderServiceError"]),
      Raises([type |-> "ValueError"]) }

GeocodeCalls ==
    { [op |-> "geocode", address |-> a, provider |-> o] :
        a \in {"Seattle", ""}, o \in ProviderOutcomes }

PositionCalls ==
    { [op |-> "calculate_optimal_viewing_position",
       precipitation_location |-> c,
       sun_position |-> [azimuth |-> 180, elevation |-> 20],
       max_distance_km |-> r] :
        c \in CenterInputs, r \in {0, 10000} }

\* the days of the clock and of the date argument
Days == 1..3

Instants == { [day |-> d, minute |-> m] : d \in Days, m \in {0, 720, 1439} }

\* get_day_night_cycle with a date, or without one (None): the clock is read
\* for the default date and again for the result, and does not go back
CycleCalls ==
    { [op |-> "get_day_night_cycle", location |-> [latitude |-> 4761, longitude |-> -12233],
       date |-> d, now |-> n] : d \in Instants, n \in Instants }
    \cup { [op |-> "get_day_night_cycle", location |-> [latitude |-> 4761, longitude |-> -12233],
            entered |-> nn[1], now |-> nn[2]] :
             nn \in { x \in Instants \X Instants :
                        \/ x[2].day > x[1].day
                        \/ (x[2].day = x[1].day /\ x[2].minute >= x[1].minute) } }

CallInputs ==
    TimingCalls \cup ViewingCalls \cup ForecastCalls \cup PositionCalls
        \cup FromDictCalls \cup DistanceCalls \cup BearingCalls
        \cup DestinationCalls \cup FindCalls \cup GeocodeCalls \cup HaversineCalls
        \cup CycleCalls

InitCalls ==
    /\ call \in CallInputs
    /\ returned = <<>>
    /\ NoRainbowCalls
    /\ NoPolicyCalls
    /\ NoServiceCalls

\* the call drawn is of operation op and has not run yet
Pending(op) == call.op = op /\ returned = <<>>

PredictRainbowTiming ==
    /\ Pending("predict_rainbow_timing")
    /\ returned' = <<Returns(predict_rainbow_timing_tool(call.weather_forecast, call.sun_positions))>>
    /\ UNCHANGED <<call, rainbowVars, policyVars, serviceVars>>

DetermineViewingLocations ==
    /\ Pending("determine_viewing_locations")
    /\ returned' = <<Returns(determine_viewing_locations_tool(
                                 call.center_location, call.sun_position, call.radius_km))>>
    /\ UNCHANGED <<call, rainbowVars, policyVars, serviceVars>>

GetWeatherForecast ==
    /\ Pending("get_weather_forecast")
    /\ returned' = <<Returns(get_forecast_tool(call.latitude, call.longitude, call.hours))>>
    /\ UNCHANGED <<call, rainbowVars, policyVars, serviceVars>>

ServiceCalculateOptimalViewingPosition ==
    /\ Pending("calculate_optimal_viewing_position")
    /\ returned' = <<Returns(RainbowService_calculate_optimal_viewing_position(
                                 call.precipitation_location, call.sun_position,
                                 call.max_distance_km))>>
    /\ UNCHANGED <<call, rainbowVars, policyVars, serviceVars>>

LocationFromDict ==
    /\ Pending("location_from_dict")
    /\ returned' = <<location_from_dict(call.location_dict)>>
    /\ UNCHANGED <<call, rainbowVars, policyVars, serviceVars>>

CalculateDistance ==
    /\ Pending("calculate_distance")
    /\ returned' = <<calculate_distance(call.point1, call.point2)>>
    /\ UNCHANGED <<call, rainbowVars, policyVars, serviceVars>>

CalculateBearing ==
    /\ Pending("calculate_bearing")
    /\ returned' = <<calculate_bearing(call.point1, call.point2)>>
    /\ UNCHANGED <<call, rainbowVars, policyVars, serviceVars>>

GetDayNightCycle ==
    /\ Pending("get_day_night_cycle")
    /\ returned' = <<Returns(get_day_night_cycle(
                                 call.location,
                                 IF "date" \in DOMAIN call THEN call.date ELSE None,
                                 call.now))>>
    /\ UNCHANGED <<call, rainbowVars, policyVars, serviceVars>>

HaversineDistance ==
    /\ Pending("haversine_distance")
    /\ returned' = <<Returns(haversine_distance(call.lat1, call.lon1, call.lat2, call.lon2))>>
    /\ UNCHANGED <<call, rainbowVars, policyVars, serviceVars>>

DestinationPoint ==
    /\ Pending("destination_point")
    /\ \E outcome \in destination_point(call.start, call.bearing, call.distance_km) :
           returned' = <<outcome>>
    /\ UNCHANGED <<call, rainbowVars, policyVars, serviceVars>>

FindLocationsInRadius ==
    /\ Pending("find_locations_in_radius")
    /\ returned' = <<find_locations_in_radius(call.center, call.radius_km,
                                              call.points_of_interest)>>
    /\ UNCHANGED <<call, rainbowVars, policyVars, serviceVars>>

Geocode ==
    /\ Pending("geocode")
    /\ returned' = <<geocode(call.address, call.provider)>>
    /\ UNCHANGED <<call, rainbowVars, policyVars, serviceVars>>

NextCalls ==
    \/ PredictRainbowTiming
    \/ DetermineViewingLocations
    \/ GetWeatherForecast
    \/ ServiceCalculateOptimalViewingPosition
    \/ LocationFromDict
    \/ CalculateDistance
    \/ CalculateBearing
    \/ DestinationPoint
    \/ FindLocationsInRadius
    \/ Geocode
    \/ HaversineDistance
    \/ GetDayNightCycle

SpecCalls == InitCalls /\ [][NextCalls]_vars

----------------------------------------------------------------------------
(* One WeatherService, called any number of times up to MaxCalls *)

\* longest sequence of calls on the WeatherService
MaxCalls == 4

ProviderNames == {"openweather", "noaa"}

ProviderConfigs == { [api_key |-> "k1"], [api_key |-> "k2", units |-> "metric"] }

ServiceLocation == [latitude |-> 4761, longitude |-> -12233]

InitWeather ==
    /\ weather_providers = <<>>
    /\ calls = <<>>
    /\ call = [op |-> "none"]
    /\ returned = <<>>
    /\ NoRainbowCalls
    /\ NoPolicyCalls

\* the call c is made: it is the latest call and the last of the calls so far
Made(c) ==
    /\ Len(calls) < MaxCalls
    /\ call' = c
    /\ calls' = Append(calls, c)

RegisterWeatherProvider ==
    \E name \in ProviderNames, config \in ProviderConfigs :
        /\ Made([op |-> "register_weather_provider",
                 provider_name |-> name, provider_config |-> config])
        /\ weather_providers' = register_weather_provider(weather_providers, name, config)
        /\ returned' = <<Returns(TRUE)>>
        /\ UNCHANGED <<rainbowVars, policyVars>>

\* provider is None or the name of a provider
ServiceGetCurrentWeather ==
    \E c \in { [op |-> "get_current_weather", location |-> ServiceLocation] }
               \cup { [op |-> "get_current_weather", location |-> ServiceLocation,
                       provider |-> name] : name \in ProviderNames } :
        /\ Made(c)
        /\ returned' = <<Returns(WeatherService_get_current_weather(c.location))>>
        /\ UNCHANGED <<weather_providers, rainbowVars, policyVars>>

ServiceGetWeatherForecast ==
    \E hours \in {0, 2} :
        /\ Made([op |-> "get_weather_forecast", location |-> ServiceLocation, hours |-> hours])
        /\ returned' = <<Returns(WeatherService_get_weather_forecast(ServiceLocation, hours))>>
        /\ UNCHANGED <<weather_providers, rainbowVars, policyVars>>

NextWeather ==
    \/ RegisterWeatherProvider
    \/ ServiceGetCurrentWeather
    \/ ServiceGetWeatherForecast

SpecWeather == InitWeather /\ [][NextWeather]_vars

----------------------------------------------------------------------------
(* Claims *)

Precipitation(x) == Get(x.weather, "precipitation", 0)
CloudCover(x) == Get(x.weather, "cloud_cover", 0)
Elevation(x) == Get(x.sun, "elevation", 0)

\* the weather of C2's scenario and the optimal sun position
Scenario1(x) ==
    /\ x.weather = [precipitation |-> 50, cloud_cover |-> 20]
    /\ x.sun = [elevation |-> 20]

\* C1: every probability returned, by the tool and by the service, for every
\* weather and sun mapping (fields missing, negative or far out of range
\* included), is a number p with 0 <= p <= 1.
C1_ProbabilityInUnitInterval ==
    /\ \A i \in DOMAIN probabilities :
           0 <= probabilities[i] /\ probabilities[i] <= ProbScale
    /\ \A i \in DOMAIN serviceProbabilities :
           0 <= serviceProbabilities[i] /\ serviceProbabilities[i] <= 1

\* C1 witness: a cloud_cover far below 0 pushes the product above 1, and the
\* tool has returned exactly 1.
C1_Witness ==
    /\ Len(probabilities) = 1
    /\ Len(serviceProbabilities) = 1
    /\ samples[1].weather = [precipitation |-> 250, cloud_cover |-> -300]
    /\ samples[1].sun = [elevation |-> 20]
    /\ probabilities[1] = ProbScale

\* C2 as stated: for weather = {precipitation: 0.5, cloud_cover: 20} and
\* sun = {elevation: 20} the probability returned is greater than 0.5.
C2_Scenario1AboveHalf ==
    \A i \in DOMAIN probabilities :
        Scenario1(samples[i]) => 2 * probabilities[i] > ProbScale

\* C2 amended: for that input the probability returned is
\* 0.8 * 0.5 * 0.8 * 1 = 0.32, which is below 0.5.
C2_Scenario1Is32Hundredths ==
    \A i \in DOMAIN probabilities :
        Scenario1(samples[i]) =>
            /\ 100 * probabilities[i] = 32 * ProbScale
            /\ 2 * probabilities[i] < ProbScale

\* C2 witness: the tool has been applied to the scenario's input.
C2_Witness ==
    /\ Len(probabilities) = 1
    /\ Scenario1(samples[1])

\* C3: when precipitation is 0 or the field is absent, the probability
\* returned is exactly 0, for every cloud_cover and every sun position.
C3_NoPrecipitationNoRainbow ==
    \A i \in DOMAIN probabilities :
        Precipitation(samples[i]) = 0 => probabilities[i] = 0

\* C3 witness: no precipitation field under a clear sky with the sun at the
\* optimal elevation, and the tool has returned 0.
C3_Witness ==
    /\ Len(probabilities) = 1
    /\ samples[1].weather = [cloud_cover |-> 0]
    /\ samples[1].sun = [elevation |-> 20]
    /\ probabilities[1] = 0

\* C10: with the sun at 60 degrees the probability returned is 0 for every
\* precipitation >= 0 and every cloud_cover in [0,100].
C10_HighSunNoRainbow ==
    \A i \in DOMAIN probabilities :
        ( /\ "elevation" \in DOMAIN samples[i].sun
          /\ samples[i].sun.elevation = 60
          /\ Precipitation(samples[i]) >= 0
          /\ CloudCover(samples[i]) >= 0
          /\ CloudCover(samples[i]) <= 100 )
        => probabilities[i] = 0

\* C10 witness: heavy rain under a clear sky with the sun at 60 degrees, and
\* the tool has returned 0.
C10_Witness ==
    /\ Len(probabilities) = 1
    /\ samples[1].weather = [precipitation |-> 250, cloud_cover |-> 0]
    /\ samples[1].sun = [elevation |-> 60]
    /\ probabilities[1] = 0

\* C6: for every weather sample that carries both fields, favorable is true
\* exactly when precipitation >= 0.1 mm/h and cloud_cover <= 70 %.
C6_FavorableIffThresholds ==
    \A i \in DOMAIN favorable :
        DOMAIN samples[i].weather = {"precipitation", "cloud_cover"} =>
            ( favorable[i] = TRUE <=>
                  ( /\ samples[i].weather.precipitation >= 10
                    /\ samples[i].weather.cloud_cover <= 70 ) )

\* C6 witness: a sample exactly on both thresholds has been analysed and is
\* reported favorable.
C6_Witness ==
    /\ Len(favorable) = 1
    /\ samples[1].weather = [precipitation |-> 10, cloud_cover |-> 70]
    /\ favorable[1] = TRUE

\* two samples whose results have both been computed
Computed(i, j) == i \in DOMAIN probabilities /\ j \in DOMAIN probabilities

ValidWeather(x) ==
    /\ Precipitation(x) >= 0
    /\ CloudCover(x) >= 0
    /\ CloudCover(x) <= 100

\* C7: with cloud_cover in [0,100] and the sun position held fixed, the
\* probability is non-decreasing in precipitation >= 0 and does not change
\* once precipitation has reached 1.0 mm/h.
C7_MonotoneInPrecipitation ==
    \A i, j \in DOMAIN samples :
        ( /\ Computed(i, j)
          /\ samples[i].sun = samples[j].sun
          /\ CloudCover(samples[i]) = CloudCover(samples[j])
          /\ ValidWeather(samples[i])
          /\ ValidWeather(samples[j])
          /\ Precipitation(samples[i]) <= Precipitation(samples[j]) )
        => /\ probabilities[i] <= probabilities[j]
           /\ Precipitation(samples[i]) >= 100 => probabilities[i] = probabilities[j]

\* C7 witness: 1.0 mm/h and 2.5 mm/h under the same sky and sun have both
\* been computed, with the same non-zero probability.
C7_Witness ==
    /\ Len(probabilities) = 2
    /\ samples[1].weather = [precipitation |-> 100, cloud_cover |-> 20]
    /\ samples[2].weather = [precipitation |-> 250, cloud_cover |-> 20]
    /\ samples[1].sun = [elevation |-> 20]
    /\ samples[2].sun = [elevation |-> 20]
    /\ probabilities[1] = probabilities[2]
    /\ probabilities[1] > 0

\* C8: with precipitation >= 0 and the sun position held fixed, of two
\* cloud_cover values in [0,100] the greater never gives the greater
\* probability.
C8_AntitoneInCloudCover ==
    \A i, j \in DOMAIN samples :
        ( /\ Computed(i, j)
          /\ samples[i].sun = samples[j].sun
          /\ Precipitation(samples[i]) = Precipitation(samples[j])
          /\ ValidWeather(samples[i])
          /\ ValidWeather(samples[j])
          /\ CloudCover(samples[i]) <= CloudCover(samples[j]) )
        => probabilities[j] <= probabilities[i]

\* C8 witness: 20 % and 100 % cloud under the same rain and sun have both
\* been computed, and the cloudier sample has the strictly lower probability.
C8_Witness ==
    /\ Len(probabilities) = 2
    /\ samples[1].weather = [precipitation |-> 50, cloud_cover |-> 20]
    /\ samples[2].weather = [precipitation |-> 50, cloud_cover |-> 100]
    /\ samples[1].sun = [elevation |-> 20]
    /\ samples[2].sun = [elevation |-> 20]
    /\ probabilities[2] < probabilities[1]

\* C9: with a valid weather sample held fixed, the probability does not grow
\* as |elevation - 20| grows: it is maximal at 20 degrees, and two elevations
\* equally far from 20 give the same probability.
C9_PeakAtOptimalElevation ==
    \A i, j \in DOMAIN samples :
        ( /\ Computed(i, j)
          /\ samples[i].weather = samples[j].weather
          /\ ValidWeather(samples[i])
          /\ Abs(Elevation(samples[i]) - 20) <= Abs(Elevation(samples[j]) - 20) )
        => probabilities[j] <= probabilities[i]

\* C9 witness: elevations 0 and 40, both 20 degrees from the optimum, under
\* the same weather have both been computed with the same non-zero
\* probability.
C9_Witness ==
    /\ Len(probabilities) = 2
    /\ samples[1].weather = [precipitation |-> 100, cloud_cover |-> 0]
    /\ samples[2].weather = [precipitation |-> 100, cloud_cover |-> 0]
    /\ samples[1].sun = [elevation |-> 0]
    /\ samples[2].sun = [elevation |-> 40]
    /\ probabilities[1] = probabilities[2]
    /\ probabilities[1] > 0

\* the probability floor of the preferences, 0.5 when the field is missing
MinProbability == Get(preferences, "min_probability", 50)

\* the probability of a prediction, 0 when the field is missing
ProbabilityOf(p) == Get(p, "probability", 0)

\* C4: should_notify_user is true exactly when notification_enabled is true
\* (the field's default) and the prediction's probability is at least
\* min_probability; it is false whenever notification_enabled is False.
C4_ShouldNotifyIff ==
    \A i \in DOMAIN notifications :
        /\ notifications[i] = TRUE <=>
               ( /\ Get(preferences, "notification_enabled", TRUE) = TRUE
                 /\ ProbabilityOf(predictions[i]) >= MinProbability )
        /\ ( /\ "notification_enabled" \in DOMAIN preferences
             /\ preferences.notification_enabled = FALSE )
           => notifications[i] = FALSE

\* C4 witness: notifications are switched off, the prediction's probability
\* is above the floor, and the decision made is false.
C4_Witness ==
    /\ Len(notifications) = 1
    /\ preferences = [notification_enabled |-> FALSE, min_probability |-> 50]
    /\ predictions[1] = [id |-> 1, probability |-> 80]
    /\ notifications[1] = FALSE

\* a is b with some elements left out
RECURSIVE IsSubsequence(_, _)
IsSubsequence(a, b) ==
    IF a = <<>> THEN TRUE
    ELSE IF b = <<>> THEN FALSE
    ELSE IF Head(a) = Head(b) THEN IsSubsequence(Tail(a), Tail(b))
    ELSE IsSubsequence(a, Tail(b))

C11_NonPositiveElevationFactorGivesZero ==
    \A i \in DOMAIN probabilities :
        ( /\ "elevation" \in DOMAIN samples[i].sun
          /\ \/ samples[i].sun.elevation <= -10
             \/ samples[i].sun.elevation >= 50 )
        => probabilities[i] = 0

\* C12 as stated, on the in-range samples: for every weather sample reported
\* not favorable, the probability returned is 0, whatever the sun position.
C12_UnfavorableGivesZero ==
    \A i \in DOMAIN probabilities :
        ( /\ i \in DOMAIN favorable
          /\ favorable[i] = FALSE
          /\ ValidWeather(samples[i]) )
        => probabilities[i] = 0

\* C13 as stated: for every valid weather sample the probability is 0
\* whenever the sun elevation is outside [MIN_SUN_ELEVATION,
\* MAX_SUN_ELEVATION] = [0, 42] degrees.
C13_OutsideVisibilityRangeGivesZero ==
    \A i \in DOMAIN probabilities :
        ( /\ ValidWeather(samples[i])
          /\ "elevation" \in DOMAIN samples[i].sun
          /\ \/ samples[i].sun.elevation < 0
             \/ samples[i].sun.elevation > 42 )
        => /\ probabilities[i] = 0
           /\ i \in DOMAIN serviceProbabilities => serviceProbabilities[i] = 0

\* sample y is sample x with exactly one of its three fields removed
OneFieldRemoved(x, y) ==
    /\ DOMAIN x.weather = {"precipitation", "cloud_cover"}
    /\ DOMAIN x.sun = {"elevation"}
    /\ \/ /\ y.sun = x.sun
          /\ \E k \in DOMAIN x.weather : y.weather = Restrict(x.weather, DOMAIN x.weather \ {k})
       \/ /\ y.weather = x.weather
          /\ y.sun = Restrict(x.sun, {})

\* C14 as stated: for every in-range weather sample and sun position,
\* removing one field never yields a probability higher than the one
\* computed with the field present.
C14_MissingFieldNeverRaisesProbability ==
    \A i, j \in DOMAIN samples :
        ( /\ Computed(i, j)
          /\ ValidWeather(samples[i])
          /\ OneFieldRemoved(samples[i], samples[j]) )
        => probabilities[j] <= probabilities[i]

\* the call of operation op has ended
Ended(op) == call.op = op /\ returned # <<>>

\* the forecast sample at position i has a probability above the visibility
\* floor: the samples drawn have probability 0 or 0.8, so for every floor
\* below 0.8 these are the samples with a probability above 0
AboveFloor(i) ==
    calculate_rainbow_probability_tool(call.weather_forecast[i], call.sun_positions[i]) > 0

\* the positions where a maximal run of samples above the floor starts
RunStarts ==
    { i \in DOMAIN call.weather_forecast :
        AboveFloor(i) /\ (i = 1 \/ ~AboveFloor(i - 1)) }

\* C15 as stated: predict_rainbow_timing returns one window per maximal run
\* of forecast samples above the visibility floor: none for an empty
\* forecast, none for a forecast entirely below the floor, one for a single
\* run.
C15_OneWindowPerRun ==
    Ended("predict_rainbow_timing") =>
        Len(returned[1].value) = Cardinality(RunStarts)

\* 0.01 degree of latitude is 6371 km * pi / 18000 = 1111.9 m of meridian;
\* this is a lower bound of it, in metres
MetresPerCentidegree == (6371 * 314) \div 1800

\* C16 as stated: every viewing location returned lies within radius_km of
\* the center, and none is returned when radius_km = 0.  A point within
\* radius_km is at most radius_km away along the meridian as well, because
\* the great-circle distance is never less than the difference in latitude.
C16_ViewingLocationsWithinRadius ==
    Ended("determine_viewing_locations") =>
        /\ \A k \in DOMAIN returned[1].value :
               MetresPerCentidegree
                   * Abs(returned[1].value[k].latitude
                           - Get(call.center_location, "latitude", 0))
                 <= call.radius_km
        /\ call.radius_km = 0 => returned[1].value = <<>>

\* C17 as stated: for every hours >= 1 the timestamps of the forecast
\* returned denote strictly increasing instants in list order.  All
\* timestamps carry the same date, so the hour decides.
C17_ForecastChronological ==
    (Ended("get_weather_forecast") /\ call.hours >= 1) =>
        \A n \in 1..(Len(returned[1].value) - 1) :
            /\ returned[1].value[n].timestamp.date = returned[1].value[n + 1].timestamp.date
            /\ returned[1].value[n].timestamp.hour < returned[1].value[n + 1].timestamp.hour

\* a location dict without its 'latitude' or its 'longitude' key
MissingCoordinate(x) == IsDict(x) /\ ~({"latitude", "longitude"} \subseteq DOMAIN x)

\* the call ended is one of the five of C18 and has such a dict as a location
CoordinateMissingInCall ==
    /\ returned # <<>>
    /\ \/ call.op = "location_from_dict" /\ MissingCoordinate(call.location_dict)
       \/ /\ call.op \in {"calculate_distance", "calculate_bearing"}
          /\ (MissingCoordinate(call.point1) \/ MissingCoordinate(call.point2))
       \/ call.op = "destination_point" /\ MissingCoordinate(call.start)
       \/ call.op = "find_locations_in_radius" /\ MissingCoordinate(call.center)

\* C18 as stated: given a location dict without the 'latitude' or the
\* 'longitude' key, location_from_dict, calculate_distance,
\* calculate_bearing, destination_point and find_locations_in_radius (for
\* its center) return a result, absent or empty, instead of raising.
C18_MissingCoordinateDoesNotRaise ==
    CoordinateMissingInCall => "raised" \notin DOMAIN returned[1]

\* the provider found nothing, timed out or failed
ProviderMissed(provider) ==
    IF "raised" \in DOMAIN provider
    THEN provider.raised.type \in {"GeocoderTimedOut", "GeocoderServiceError"}
    ELSE provider.value = None

\* the provider found a place
ProviderFound(provider) == "value" \in DOMAIN provider /\ provider.value # None

\* the outcome is the return of a Location object
ReturnsLocation(outcome) ==
    /\ "value" \in DOMAIN outcome
    /\ "type" \in DOMAIN outcome.value
    /\ outcome.value.type = "Location"

\* C19: geocode returns None when the provider finds nothing and when it
\* times out or fails, and returns a Location only when the provider found a
\* place, with exactly the provider's latitude and longitude.
C19_GeocodeNoneOrProviderCoordinates ==
    Ended("geocode") =>
        /\ ProviderMissed(call.provider) => returned[1] = Returns(None)
        /\ ProviderFound(call.provider) => ReturnsLocation(returned[1])
        /\ ReturnsLocation(returned[1]) =>
               /\ ProviderFound(call.provider)
               /\ returned[1].value.latitude = call.provider.value.latitude
               /\ returned[1].value.longitude = call.provider.value.longitude

\* the provider timed out and geocode returned None
C19_Witness ==
    /\ Ended("geocode")
    /\ call.provider = Raises([type |-> "GeocoderTimedOut"])
    /\ returned[1] = Returns(None)

\* C20 as stated: for every start, bearing and distance_km >= 0 the
\* Location destination_point returns has its latitude in [-90, 90] and its
\* longitude in [-180, 180].
C20_DestinationInCoordinateRange ==
    (Ended("destination_point") /\ ReturnsLocation(returned[1])) =>
        /\ -9000 <= returned[1].value.latitude
        /\ returned[1].value.latitude <= 9000
        /\ -18000 <= returned[1].value.longitude
        /\ returned[1].value.longitude <= 18000

\* the point is a Location object or a dict with both coordinates
HasCoordinates(x) == ~MissingCoordinate(x)

\* the two points of the call have the same coordinates
SamePoint ==
    /\ call.point1.latitude = call.point2.latitude
    /\ call.point1.longitude = call.point2.longitude

\* C21: for every pair of points calculate_bearing returns a bearing b with
\* 0 <= b < 360, and for two identical points it returns 0.
C21_BearingInRangeAndZeroOnSamePoint ==
    ( /\ Ended("calculate_bearing")
      /\ HasCoordinates(call.point1)
      /\ HasCoordinates(call.point2) )
    => /\ "value" \in DOMAIN returned[1]
       /\ 0 <= returned[1].value
       /\ returned[1].value < 36000
       /\ SamePoint => returned[1].value = 0

\* the bearing due west was computed: atan2 gives -90 degrees, returned as 270
C21_Witness ==
    /\ Ended("calculate_bearing")
    /\ HasCoordinates(call.point1)
    /\ HasCoordinates(call.point2)
    /\ call.point1.latitude = 0
    /\ call.point2.latitude = 0
    /\ call.point1.longitude = 9000
    /\ call.point2.longitude = 0
    /\ returned[1] = Returns(27000)

RequestedDate == IF "date" \in DOMAIN call THEN call.date ELSE call.entered

\* C23 as stated: for every location and every date argument, all six
\* instants get_day_night_cycle returns lie on the calendar date requested.
C23_CycleOnRequestedDate ==
    Ended("get_day_night_cycle") =>
        \A k \in CycleKeys : returned[1].value[k].day = RequestedDate.day

\* the points of interest that have both coordinates and lie within
\* radius_km of the center
Qualifying ==
    { i \in DOMAIN call.points_of_interest :
        /\ HasCoordinates(call.points_of_interest[i])
        /\ calculate_distance(call.center, call.points_of_interest[i]).value
             <= call.radius_km }

\* the entry is the one of the point of interest at position i
EntryOf(entry, i) ==
    /\ entry.location.latitude = call.points_of_interest[i].latitude
    /\ entry.location.longitude = call.points_of_interest[i].longitude
    /\ entry.distance = calculate_distance(call.center, call.points_of_interest[i]).value

\* C24: find_locations_in_radius returns exactly one entry per point of
\* interest within radius_km of the center (boundary included), skipping
\* dicts that lack a coordinate key without raising; the entries are in
\* non-decreasing order of distance, entries at equal distance in input
\* order, and the result is empty when there are no points of interest.
C24_ResultsAreQualifyingPointsByDistance ==
    (Ended("find_locations_in_radius") /\ HasCoordinates(call.center)) =>
        /\ "value" \in DOMAIN returned[1]
        /\ Len(returned[1].value) = Cardinality(Qualifying)
        /\ \E f \in [DOMAIN returned[1].value -> Qualifying] :
               /\ \A k \in DOMAIN f : EntryOf(returned[1].value[k], f[k])
               /\ \A k, l \in DOMAIN f :
                      k < l =>
                          /\ f[k] # f[l]
                          /\ returned[1].value[k].distance <= returned[1].value[l].distance
                          /\ returned[1].value[k].distance = returned[1].value[l].distance
                                 => f[k] < f[l]
        /\ call.points_of_interest = <<>> => returned[1].value = <<>>

\* two points of interest at the same distance on either side of the center
\* were returned in their input order, the eastern one first
C24_Witness ==
    /\ Ended("find_locations_in_radius")
    /\ HasCoordinates(call.center)
    /\ call.center.longitude = -17000
    /\ call.radius_km = 18000
    /\ Len(call.points_of_interest) = 2
    /\ Len(returned[1].value) = 2
    /\ returned[1].value[1].distance = returned[1].value[2].distance
    /\ returned[1].value[1].location.longitude = 2000
    /\ returned[1].value[2].location.longitude = 0

\* the positions of the register_weather_provider calls made so far
Registrations == { i \in DOMAIN calls : calls[i].op = "register_weather_provider" }

\* the names registered so far
RegisteredNames == { calls[i].provider_name : i \in Registrations }

\* the configuration of the most recent registration of name
LastRegistered(name) ==
    LET last == CHOOSE i \in Registrations :
                    /\ calls[i].provider_name = name
                    /\ \A j \in Registrations :
                           calls[j].provider_name = name => j <= i
    IN  calls[last].provider_config

\* C25: after any sequence of register_weather_provider, get_current_weather
\* and get_weather_forecast calls, weather_providers maps exactly the names
\* registered so far, each to the configuration of its most recent
\* registration, and every register call returns True.  The names and
\* configurations registered are the same before and after a
\* get_current_weather or get_weather_forecast call, so these calls leave
\* weather_providers as it was.
C25_ProvidersAreLatestRegistrations ==
    /\ DOMAIN weather_providers = RegisteredNames
    /\ \A name \in RegisteredNames : weather_providers[name] = LastRegistered(name)
    /\ call.op = "register_weather_provider" => returned = <<Returns(TRUE)>>

\* a provider was registered twice with different configurations, then the
\* weather was asked for: the provider has its second configuration
C25_Witness ==
    /\ Len(calls) = 3
    /\ calls[1].op = "register_weather_provider"
    /\ calls[2].op = "register_weather_provider"
    /\ calls[1].provider_name = "noaa"
    /\ calls[2].provider_name = "noaa"
    /\ calls[1].provider_config # calls[2].provider_config
    /\ calls[3].op = "get_weather_forecast"
    /\ weather_providers = [n \in {"noaa"} |-> calls[2].provider_config]

\* the first n predictions for which should_notify_user returned true
RECURSIVE NotifiedPredictions(_)
NotifiedPredictions(n) ==
    IF n = 0 THEN <<>>
    ELSE NotifiedPredictions(n - 1)
             \o (IF notifications[n] THEN <<predictions[n]>> ELSE <<>>)

\* should_notify_user has been asked for every prediction, and the filter
\* has run
PolicyDone == Len(notifications) = Len(predictions) /\ filterResults # <<>>

\* C26: with notification_enabled true or absent, a prediction is kept by
\* filter_predictions_by_preferences exactly when should_notify_user returns
\* true for it, also when min_probability or probability is missing: the
\* filter's result is the list of the predictions notified, in input order.
C26_FilterAgreesWithShouldNotify ==
    (PolicyDone /\ Get(preferences, "notification_enabled", TRUE) = TRUE) =>
        filterResults[1] = NotifiedPredictions(Len(predictions))

\* no preference is set; of a prediction without probability, one below the
\* default floor and one on it, only the last is notified and kept
C26_Witness ==
    /\ PolicyDone
    /\ DOMAIN preferences = {}
    /\ predictions = << [id |-> 1], [id |-> 2, probability |-> 30],
                        [id |-> 1, probability |-> 50] >>
    /\ notifications = <<FALSE, FALSE, TRUE>>
    /\ filterResults[1] = << [id |-> 1, probability |-> 50] >>

\* the probability 0.8
MaxProbability == (8 * ProbScale) \div 10

\* preferences with notifications on and a min_probability above 0.8
DemandingPreferences ==
    { [notification_enabled |-> TRUE, min_probability |-> m] :
        m \in {MaxProbability + 1, (9 * ProbScale) \div 10, ProbScale} }

====
